---- MODULE Spec2Model ----
(***************************************************************************)
(* agent_validator: the validation-and-coercion engine (validate.py) and   *)
(* the retry orchestration of validate().                                  *)
(*                                                                         *)
(* Python values are tagged records; the tag is the value's Python type    *)
(* name (type(x).__name__), which is also what the error reasons print.    *)
(* A dict is the sequence of its <<key, value>> items in insertion order.  *)
(* A float is held in tenths (m = 25 is 2.5).                              *)
(***************************************************************************)
EXTENDS Integers, Sequences, FiniteSets, TLC

VARIABLES
    pc,            \* position: "new" (no Schema yet), "start", "retry", "done"
    schema_args,   \* arguments of the Schema constructor
    restored,      \* what rebuilding the Schema from its serialized form gave
    restored_json, \* what rebuilding the Schema from its JSON text gave
    again,         \* how validating the returned value once more ended
    correlation_id,\* argument: context.get("correlation_id")
    agent_output,  \* argument: the output to validate
    schema,        \* argument: schema.schema_dict
    has_retry_fn,  \* argument: whether retry_fn was supplied
    retries,       \* argument
    mode,          \* argument
    config,        \* argument
    attempt,       \* the retry loop's variable
    last_error,    \* the retry loop's remembered error
    outcome,       \* how the call ended
    gen_outputs,   \* what each retry_fn invocation did, in order
    logs,          \* records handed to log_validation_result, in order
    reporter_failed,\* whether a reporter call failed to deliver
    events         \* what the call did, in order

vars == <<pc, schema_args, restored, restored_json, again, correlation_id, agent_output, schema,
          has_retry_fn, retries, mode, config, attempt, last_error, outcome,
          gen_outputs, logs, reporter_failed, events>>

-----------------------------------------------------------------------------
(* Bounds of the model *)

MaxRetries == 2
MaxItems == 2       \* longest list among the generated outputs

-----------------------------------------------------------------------------
(* Python values *)

PyNone == [t |-> "NoneType"]
PyStr(s) == [t |-> "str", s |-> s]
PyInt(i) == [t |-> "int", i |-> i]
PyFloat(m) == [t |-> "float", m |-> m]
PyBool(b) == [t |-> "bool", b |-> b]
PyList(l) == [t |-> "list", l |-> l]
PyDict(d) == [t |-> "dict", d |-> d]

\* key in d, for a dict d
HasKey(v, key) == \E n \in 1..Len(v.d) : v.d[n][1] = key

\* d[key], for a dict d that has the key
Get(v, key) == v.d[CHOOSE n \in 1..Len(v.d) : v.d[n][1] = key][2]

\* variant: no value is an instance of its declared type
IsInstance_Never(value, ty) == FALSE

\* isinstance(value, expected_type); bool is a subclass of int
IsInstance(value, ty) == value.t = ty \/ (ty = "int" /\ value.t = "bool")

STRICT == "strict"
COERCE == "coerce"
ValidationMode == {STRICT, COERCE}

DefaultConfig ==
    [max_output_bytes |-> 131072, max_str_len |-> 8192,
     max_list_len |-> 2048, max_dict_keys |-> 512]

-----------------------------------------------------------------------------
(* Results of a call: a value, a ValidationError, or another exception *)

Ok(v) == [st |-> "ok", val |-> v]
ValidationError(path, reason) ==
    [st |-> "ValidationError", path |-> path, reason |-> reason, attempt |-> 0,
     correlation_id |-> "None"]
\* ValidationError(..., correlation_id=correlation_id)
WithCorrelation(e, cid) == [e EXCEPT !.correlation_id = cid]
Raised(exc) == [st |-> "raised", exc |-> exc]

-----------------------------------------------------------------------------
(* Library conversions on text, tabulated over the texts the model uses *)

TextJohn30 == "{\"name\": \"John\", \"age\": 30}"
TextJohnInvalid == "{\"name\": \"John\", \"age\": \"invalid\"}"
TextQuoted5 == "\"5\""
TextQuotedName == "\"name\""
TextList12 == "[1, 2]"

\* json.loads(s): the value, or JSONDecodeError
JsonLoads(s) ==
    CASE s = TextJohn30 ->
           Ok(PyDict(<< <<"name", PyStr("John")>>, <<"age", PyInt(30)>> >>))
      [] s = TextJohnInvalid ->
           Ok(PyDict(<< <<"name", PyStr("John")>>, <<"age", PyStr("invalid")>> >>))
      [] s = TextQuoted5 -> Ok(PyStr("5"))
      [] s = TextQuotedName -> Ok(PyStr("name"))
      [] s = TextList12 -> Ok(PyList(<<PyInt(1), PyInt(2)>>))
      [] s = "{}" -> Ok(PyDict(<<>>))
      [] s = "[]" -> Ok(PyList(<<>>))
      [] s \in {"5", " 5 "} -> Ok(PyInt(5))
      [] s = "30" -> Ok(PyInt(30))
      [] s = "0" -> Ok(PyInt(0))
      [] s = "1" -> Ok(PyInt(1))
      [] s = "-7" -> Ok(PyInt(-7))
      [] s = "2.5" -> Ok(PyFloat(25))
      [] s = "-2.5" -> Ok(PyFloat(-25))
      [] s = "0.0" -> Ok(PyFloat(0))
      [] s = "30.0" -> Ok(PyFloat(300))
      [] s = "true" -> Ok(PyBool(TRUE))
      [] s = "false" -> Ok(PyBool(FALSE))
      [] s = "null" -> Ok(PyNone)
      [] OTHER -> Raised("JSONDecodeError")

\* s.strip()
Strip(s) ==
    CASE s = " 5 " -> "5"
      [] s = " yes " -> "yes"
      [] s = " 2.5 " -> "2.5"
      [] OTHER -> s

\* variant: the text is compared as written
Lower_AsWritten(s) == s

\* s.lower()
Lower(s) ==
    CASE s = "True" -> "true"
      [] s = "False" -> "false"
      [] s = "YES" -> "yes"
      [] s = "John" -> "john"
      [] OTHER -> s

\* int(s) for a stripped text: the integer, or ValueError
IntOfText(s) ==
    CASE s = "5" -> Ok(PyInt(5))
      [] s = "30" -> Ok(PyInt(30))
      [] s = "0" -> Ok(PyInt(0))
      [] s = "1" -> Ok(PyInt(1))
      [] s = "-7" -> Ok(PyInt(-7))
      [] OTHER -> Raised("ValueError")

\* float(s) for a stripped text: the float, or ValueError
FloatOfText(s) ==
    CASE s = "2.5" -> Ok(PyFloat(25))
      [] s = "-2.5" -> Ok(PyFloat(-25))
      [] s = "5" -> Ok(PyFloat(50))
      [] s = "30" -> Ok(PyFloat(300))
      [] s = "0" -> Ok(PyFloat(0))
      [] s = "1" -> Ok(PyFloat(10))
      [] s = "-7" -> Ok(PyFloat(-70))
      [] s = "30.0" -> Ok(PyFloat(300))
      [] s = "0.0" -> Ok(PyFloat(0))
      [] OTHER -> Raised("ValueError")

\* sub in s, for texts
Contains(s, sub) ==
    \/ s = sub
    \/ sub = ""
    \/ (s = "name" /\ sub \in {"n", "a", "m", "e", "na", "am", "me", "nam", "ame"})

\* list(s): the characters of a text, tabulated for the texts that json.loads
\* can return
Chars(s) ==
    CASE s = "" -> <<>>
      [] s = "5" -> <<"5">>
      [] s = "name" -> <<"n", "a", "m", "e">>
      [] OTHER -> <<s>>

\* the characters json.dumps escapes in s (each grows by one byte)
Escapes(s) ==
    CASE s = TextJohn30 -> 6
      [] s = TextJohnInvalid -> 8
      [] s = TextQuoted5 -> 2
      [] s = TextQuotedName -> 2
      [] OTHER -> 0

\* int(x) for a float: truncation towards zero
IntOfFloat(m) == IF m >= 0 THEN m \div 10 ELSE -((-m) \div 10)

\* repr of a float
FloatText(m) ==
    IF m >= 0
    THEN ToString(m \div 10) \o "." \o ToString(m % 10)
    ELSE "-" \o ToString((-m) \div 10) \o "." \o ToString((-m) % 10)

\* str(value), for a value that is not a str
RECURSIVE Repr(_)
ReprItems(l, n) ==
    LET RECURSIVE Join(_)
        Join(k) == IF k > Len(l) THEN ""
                   ELSE (IF k > 1 THEN ", " ELSE "") \o
                        (IF n = 2 THEN "'" \o l[k][1] \o "': " \o Repr(l[k][2])
                         ELSE Repr(l[k])) \o Join(k + 1)
    IN Join(1)
Repr(v) ==
    CASE v.t = "str" -> "'" \o v.s \o "'"
      [] v.t = "int" -> ToString(v.i)
      [] v.t = "float" -> FloatText(v.m)
      [] v.t = "bool" -> IF v.b THEN "True" ELSE "False"
      [] v.t = "NoneType" -> "None"
      [] v.t = "list" -> "[" \o ReprItems(v.l, 1) \o "]"
      [] v.t = "dict" -> "{" \o ReprItems(v.d, 2) \o "}"
StrOf(v) == IF v.t = "str" THEN v.s ELSE Repr(v)

\* len(json.dumps(v).encode()), for the ASCII texts of the model
RECURSIVE DumpsLen(_)
DumpsLen(v) ==
    LET RECURSIVE Sum(_, _)
        Sum(l, k) ==
            IF k > Len(l) THEN 0
            ELSE (IF k > 1 THEN 2 ELSE 0) +
                 (IF v.t = "dict"
                  THEN Len(l[k][1]) + Escapes(l[k][1]) + 2 + 2 + DumpsLen(l[k][2])
                  ELSE DumpsLen(l[k])) + Sum(l, k + 1)
    IN CASE v.t = "str" -> Len(v.s) + Escapes(v.s) + 2
         [] v.t = "int" -> Len(ToString(v.i))
         [] v.t = "float" -> Len(FloatText(v.m))
         [] v.t = "bool" -> IF v.b THEN 4 ELSE 5
         [] v.t = "NoneType" -> 4
         [] v.t = "list" -> 2 + Sum(v.l, 1)
         [] v.t = "dict" -> 2 + Sum(v.d, 1)

-----------------------------------------------------------------------------
(* Shape descriptions: a dict of a description is the sequence of its       *)
(* <<key, node>> items; a node is the Python object the description holds   *)

Optional == [k |-> "optional"]                   \* None
Type(ty) == [k |-> "type", ty |-> ty]            \* a type object, by __name__
Nested(fields) == [k |-> "dict", fields |-> fields]
ListDesc(elems) == [k |-> "list", elems |-> elems]   \* a list of any length
ListOf(elem) == ListDesc(<<elem>>)
OtherValue == [k |-> "value"]                    \* any other object, e.g. "str"

\* the types _validate_schema accepts
SupportedTypes == {"str", "int", "float", "bool", "list", "dict"}

\* a key of a description that is not a str: the int 1
IntKey == "<int 1>"
IsStrKey(key) == key # IntKey

\* variant: nested descriptions are not checked at construction
NestedSchema_Unchecked(value, checked) == Ok(PyNone)

\* Schema(value) inside _validate_schema, `checked` being what the nested
\* construction raises or returns
NestedSchema(value, checked) == checked

\* _validate_schema: None, or SchemaError
RECURSIVE ValidateSchema(_)
ValidateSchema(schema_dict) ==
    LET RECURSIVE Items(_)
        Items(n) ==
            IF n > Len(schema_dict.fields) THEN Ok(PyNone)
            ELSE LET key == schema_dict.fields[n][1]
                     value == schema_dict.fields[n][2]
                     r == IF ~IsStrKey(key) THEN Raised("SchemaError")
                          ELSE CASE value.k = "optional" -> Ok(PyNone)
                                 [] value.k = "type" ->
                                      IF value.ty \in SupportedTypes
                                      THEN Ok(PyNone)
                                      ELSE Raised("SchemaError")
                                 [] value.k = "dict" ->
                                      NestedSchema(value, ValidateSchema(value))
                                 [] value.k = "list" ->
                                      IF Len(value.elems) # 1
                                      THEN Raised("SchemaError")
                                      ELSE IF value.elems[1].k = "type"
                                      THEN IF value.elems[1].ty \in SupportedTypes
                                           THEN Ok(PyNone)
                                           ELSE Raised("SchemaError")
                                      ELSE IF value.elems[1].k = "dict"
                                      THEN NestedSchema(value.elems[1],
                                               ValidateSchema(value.elems[1]))
                                      ELSE Raised("SchemaError")
                                 [] OTHER -> Raised("SchemaError")
                 IN IF r.st # "ok" THEN r ELSE Items(n + 1)
    IN IF schema_dict.k # "dict" THEN Raised("SchemaError") ELSE Items(1)

\* Schema(schema_dict, max_keys, max_list_len, max_str_len, validators): the
\* instance, or SchemaError; validators is the sequence of the dict's keys
SchemaInit(schema_dict, max_keys, max_list_len, max_str_len, validators) ==
    LET r == ValidateSchema(schema_dict)
    IN IF r.st # "ok" THEN r
       ELSE Ok([schema_dict |-> schema_dict, max_keys |-> max_keys,
                max_list_len |-> max_list_len, max_str_len |-> max_str_len,
                validators |-> validators])

-----------------------------------------------------------------------------
(* _validate_type *)

\* variant: the isinstance shortcut is taken in STRICT mode only; COERCE mode
\* converts every value, and knows the conversion to str alone
ValidateType_ShortcutStrictOnly(value, expected_type, mode_, path) ==
    IF mode_ = STRICT
    THEN (IF IsInstance(value, expected_type) THEN Ok(value)
          ELSE ValidationError(path, "Expected " \o expected_type \o ", got "
                                     \o value.t))
    ELSE IF expected_type = "str" THEN Ok(PyStr(StrOf(value)))
    ELSE ValidationError(path, "Cannot coerce to " \o expected_type)

ValidateType(value, expected_type, mode_, path) ==
    IF IsInstance(value, expected_type) THEN Ok(value)
    ELSE IF mode_ = STRICT
    THEN ValidationError(path, "Expected " \o expected_type \o ", got " \o value.t)
    ELSE CASE expected_type = "int" ->
                IF value.t = "str"
                THEN LET r == IntOfText(Strip(value.s))
                     IN IF r.st = "ok" THEN r
                        ELSE ValidationError(path, "Cannot coerce to int")
                ELSE IF value.t = "float" THEN Ok(PyInt(IntOfFloat(value.m)))
                ELSE ValidationError(path, "Cannot coerce to int")
           [] expected_type = "float" ->
                IF value.t = "str"
                THEN LET r == FloatOfText(Strip(value.s))
                     IN IF r.st = "ok" THEN r
                        ELSE ValidationError(path, "Cannot coerce to float")
                ELSE IF value.t = "int" THEN Ok(PyFloat(value.i * 10))
                ELSE IF value.t = "bool" THEN Ok(PyFloat(IF value.b THEN 10 ELSE 0))
                ELSE ValidationError(path, "Cannot coerce to float")
           [] expected_type = "bool" ->
                IF value.t = "str"
                THEN LET value_lower == Lower(Strip(value.s))
                     IN IF value_lower \in {"true", "1", "yes", "on"}
                        THEN Ok(PyBool(TRUE))
                        ELSE IF value_lower \in {"false", "0", "no", "off"}
                        THEN Ok(PyBool(FALSE))
                        ELSE ValidationError(path, "Cannot coerce to bool")
                ELSE IF value.t = "int" THEN Ok(PyBool(value.i # 0))
                ELSE ValidationError(path, "Cannot coerce to bool")
           [] expected_type = "str" -> Ok(PyStr(StrOf(value)))
           [] OTHER ->
                ValidationError(path, "Cannot coerce to " \o expected_type)

-----------------------------------------------------------------------------
(* _validate_against_schema *)

\* the size limits applied to the node's data
SizeLimitExceeded(data, config_) ==
    \/ data.t = "str" /\ Len(data.s) > config_.max_str_len
    \/ data.t = "list" /\ Len(data.l) > config_.max_list_len
    \/ data.t = "dict" /\ Len(data.d) > config_.max_dict_keys

\* the data a non-dict (or non-list) is replaced by before matching: `kind` is
\* "dict" or "list"
CoerceContainer(value, kind, mode_, path) ==
    IF value.t = kind THEN Ok(value)
    ELSE IF mode_ = STRICT
    THEN ValidationError(path, "Expected " \o kind \o ", got " \o value.t)
    ELSE IF value.t = "str"
    THEN LET r == JsonLoads(value.s)
         IN IF r.st = "ok" THEN r
            ELSE ValidationError(path, "Cannot coerce to " \o kind)
    ELSE ValidationError(path, "Cannot coerce to " \o kind)

\* `key in data`
KeyIn(data, key) ==
    CASE data.t = "dict" -> Ok(HasKey(data, key))
      [] data.t = "list" -> Ok(\E n \in 1..Len(data.l) : data.l[n] = PyStr(key))
      [] data.t = "str" -> Ok(Contains(data.s, key))
      [] OTHER -> Raised("TypeError")

\* data[key], for a str key
GetItem(data, key) ==
    IF data.t = "dict" THEN Ok(Get(data, key)) ELSE Raised("TypeError")

\* the items enumerate(value) yields
Enumerate(value) ==
    CASE value.t = "list" -> Ok(value.l)
      [] value.t = "dict" -> Ok([n \in 1..Len(value.d) |-> PyStr(value.d[n][1])])
      [] value.t = "str" ->
           Ok([n \in 1..Len(Chars(value.s)) |-> PyStr(Chars(value.s)[n])])
      [] OTHER -> Raised("TypeError")

\* variant: the result starts as a copy of the data
EmptyResult_CopiesData(data) == IF data.t = "dict" THEN data.d ELSE <<>>

\* result = {}
EmptyResult(data) == <<>>

\* result[key] = value
SetItem(result, key, value) ==
    IF \E n \in 1..Len(result) : result[n][1] = key
    THEN [n \in 1..Len(result) |->
             IF result[n][1] = key THEN <<key, value>> ELSE result[n]]
    ELSE Append(result, <<key, value>>)

\* variant: the fields are visited last to first
SchemaItems_Reversed(schema_dict) ==
    [n \in 1..Len(schema_dict) |-> schema_dict[Len(schema_dict) + 1 - n]]

\* schema.schema_dict.items()
SchemaItems(schema_dict) == schema_dict

\* variant: a present optional field is replaced by None
OptionalField_Null(value) == Ok(PyNone)

\* the branch of a field declared None that is present
OptionalField(value) == Ok(value)

\* a field the branches leave out of the result
Skipped == [st |-> "skip"]

RECURSIVE ValidateAgainstSchema(_, _, _, _, _)
RECURSIVE ValidateFields(_, _, _, _, _, _, _)
RECURSIVE ValidateItems(_, _, _, _, _, _, _)

\* the list comprehensions: item n (index n - 1) onwards, `acc` the items done
ValidateItems(items, element_type, n, acc, mode_, config_, path) ==
    IF n > Len(items) THEN Ok(PyList(acc))
    ELSE LET item_path == path \o "[" \o ToString(n - 1) \o "]"
             r == IF element_type.k = "type"
                  THEN ValidateType(items[n], element_type.ty, mode_, item_path)
                  ELSE ValidateAgainstSchema(items[n], element_type.fields,
                                             mode_, config_, item_path)
         IN IF r.st # "ok" THEN r
            ELSE ValidateItems(items, element_type, n + 1, Append(acc, r.val),
                               mode_, config_, path)

\* the branch of a field declared as a list
ValidateList(value, expected_type, mode_, config_, path) ==
    LET c == CoerceContainer(value, "list", mode_, path)
    IN IF c.st # "ok" THEN c
       ELSE IF expected_type.elems = <<>> THEN Raised("IndexError")
       ELSE LET element_type == expected_type.elems[1]
                nested_schema == IF element_type.k = "dict"
                                 THEN ValidateSchema(element_type)
                                 ELSE Ok(PyNone)
                items == Enumerate(c.val)
            IN IF element_type.k \notin {"type", "dict"} THEN Skipped
               ELSE IF nested_schema.st # "ok" THEN nested_schema
               ELSE IF items.st # "ok" THEN items
               ELSE ValidateItems(items.val, element_type, 1, <<>>,
                                  mode_, config_, path)

\* the loop over schema.schema_dict.items(): item n onwards, `result` so far
ValidateFields(data, schema_dict, n, result, mode_, config_, path) ==
    IF n > Len(schema_dict) THEN Ok(PyDict(result))
    ELSE LET key == SchemaItems(schema_dict)[n][1]
             expected_type == SchemaItems(schema_dict)[n][2]
             field_path == path \o "." \o key
             present == KeyIn(data, key)
         IN IF present.st # "ok" THEN present
            ELSE IF ~present.val
            THEN IF expected_type.k # "optional"
                 THEN ValidationError(field_path, "Missing required field")
                 ELSE ValidateFields(data, schema_dict, n + 1, result,
                                     mode_, config_, path)
            ELSE LET value == GetItem(data, key)
                     nested_schema == IF expected_type.k = "dict"
                                      THEN ValidateSchema(expected_type)
                                      ELSE Ok(PyNone)
                     r == IF value.st # "ok" THEN value
                          ELSE CASE expected_type.k = "optional" ->
                                      OptionalField(value.val)
                                 [] expected_type.k = "type" ->
                                      ValidateType(value.val, expected_type.ty,
                                                   mode_, field_path)
                                 [] expected_type.k = "dict" ->
                                      IF nested_schema.st # "ok"
                                      THEN nested_schema
                                      ELSE ValidateAgainstSchema(value.val,
                                               expected_type.fields, mode_,
                                               config_, field_path)
                                 [] expected_type.k = "list" ->
                                      ValidateList(value.val, expected_type,
                                                   mode_, config_, field_path)
                                 [] OTHER -> Skipped
                 IN IF r.st = "skip"
                    THEN ValidateFields(data, schema_dict, n + 1, result,
                                        mode_, config_, path)
                    ELSE IF r.st # "ok" THEN r
                    ELSE ValidateFields(data, schema_dict, n + 1,
                                        SetItem(result, key, r.val),
                                        mode_, config_, path)

ValidateAgainstSchema(data, schema_dict, mode_, config_, path) ==
    IF data.t = "NoneType" THEN Ok(PyNone)
    ELSE IF SizeLimitExceeded(data, config_)
    THEN ValidationError(path, "size_limit")
    ELSE LET c == CoerceContainer(data, "dict", mode_, path)
         IN IF c.st # "ok" THEN c
            ELSE ValidateFields(c.val, schema_dict, 1, EmptyResult(c.val),
                                mode_, config_, path)

-----------------------------------------------------------------------------
(* validate(): the pieces of one attempt *)

\* variant: a text that does not parse is wrapped in both modes
Normalize_AlwaysWraps(output, mode_) ==
    IF output.t = "str"
    THEN LET r == JsonLoads(output.s)
         IN IF r.st = "ok" THEN r
            ELSE Ok(PyDict(<< <<"raw_output", output>> >>))
    ELSE Ok(output)

\* parse a str output; on a parse failure STRICT fails, COERCE wraps the text
Normalize(output, mode_) ==
    IF output.t = "str"
    THEN LET r == JsonLoads(output.s)
         IN IF r.st = "ok" THEN r
            ELSE IF mode_ = STRICT THEN ValidationError("root", "Invalid JSON")
            ELSE Ok(PyDict(<< <<"raw_output", output>> >>))
    ELSE Ok(output)

\* the whole-payload check on the serialized output
TooLarge(output, config_) == DumpsLen(output) > config_.max_output_bytes

\* normalization, payload check and structural validation of one raw output:
\* the stage that decided, and its result
Attempt(raw, schema_dict, mode_, config_) ==
    LET n == Normalize(raw, mode_)
    IN IF n.st # "ok" THEN [stage |-> "normalize", res |-> n]
       ELSE IF TooLarge(n.val, config_)
       THEN [stage |-> "size", res |-> ValidationError("root", "size_limit")]
       ELSE [stage |-> "validate",
             res |-> ValidateAgainstSchema(n.val, schema_dict, mode_, config_,
                                           "root")]

\* the arguments of the log_validation_result calls
SuccessRecord(attempts, mode_) ==
    [valid |-> TRUE, errors |-> <<>>, attempts |-> attempts, mode |-> mode_]
\* variant: the failure record carries no error entry
FailureRecord_NoErrors(e, attempts, mode_) ==
    [valid |-> FALSE, errors |-> <<>>, attempts |-> attempts, mode |-> mode_]
FailureRecord(e, attempts, mode_) ==
    [valid |-> FALSE, errors |-> <<[path |-> e.path, reason |-> e.reason]>>,
     attempts |-> attempts, mode |-> mode_]

\* attempts= of the record of a success in the retry loop
RetrySuccessAttempts(attempt_) == attempt_ + 1

\* variant: the record after the loop counts the retries only
ExhaustedAttempts_RetriesOnly(retries_) == retries_

\* attempts= of the record after the loop
ExhaustedAttempts(retries_) == retries_ + 1

\* variant: the loop runs once more than retries
RetryRange_OneMore(retries_) == 1..(retries_ + 1)

\* range(1, retries + 1)
RetryRange(retries_) == 1..retries_

\* variant: the loop never replaces the remembered error
NextLastError_KeepsFirst(last_error_, caught) == last_error_

\* variant: an iteration skipped before structural validation is remembered
\* as a payload failure
NextLastError_RemembersSkip(last_error_, caught) ==
    IF caught.st = "ValidationError" THEN caught
    ELSE ValidationError("root", "size_limit")

\* the remembered error after an iteration that did not return: only a
\* ValidationError caught by the loop's except clause replaces it
NextLastError(last_error_, caught) ==
    IF caught.st = "ValidationError" THEN caught ELSE last_error_

\* variant: a failure to deliver the record is raised to validate()
ReporterRaises_Propagates(delivery_failed) == delivery_failed

\* whether a failure to deliver the record is raised to validate()
ReporterRaises(delivery_failed) == FALSE

-----------------------------------------------------------------------------
(* Inputs of the model *)

SchemaNameAge == << <<"name", Type("str")>>, <<"age", Type("int")>> >>
SchemaNameOptAge == << <<"name", Type("str")>>, <<"age", Optional>> >>
SchemaRawOutput == << <<"raw_output", Type("str")>> >>
Schemas == {SchemaNameAge, SchemaNameOptAge, SchemaRawOutput}

\* Schema(schema_dict) with the other arguments defaulted
DefaultArgs(schema_dict) ==
    [schema_dict |-> schema_dict, max_keys |-> PyNone, max_list_len |-> PyNone,
     max_str_len |-> PyNone, validators |-> <<>>]
CorrelationIds == {"None", "req-1"}

SmallConfig ==
    [max_output_bytes |-> 30, max_str_len |-> 4,
     max_list_len |-> 2, max_dict_keys |-> 2]
Configs == {DefaultConfig, SmallConfig}

AgentOutputs ==
    { PyStr(TextJohn30),
      PyDict(<< <<"name", PyStr("John")>>, <<"age", PyStr("30")>> >>),
      PyDict(<< <<"name", PyStr("Johnny")>>, <<"age", PyInt(3)>> >>),
      PyDict(<< <<"name", PyStr("Johnathan")>>, <<"age", PyInt(30)>> >>),
      PyDict(<< <<"age", PyInt(30)>> >>),
      PyStr("invalid json"),
      PyStr(TextQuoted5) }

Returns(v) == [kind |-> "return", val |-> v]
Raises(e) == [kind |-> "raise", exc |-> e]

\* what one retry_fn("", context) invocation can do
GenOutcomes ==
    { Returns(PyStr(TextJohn30)),
      Returns(PyStr(TextJohnInvalid)),
      Returns(PyDict(<< <<"age", PyInt(30)>> >>)),
      Returns(PyStr("invalid json")),
      Returns(PyStr(TextQuoted5)),
      Raises(Raised("RuntimeError")),
      Raises(ValidationError("generator", "rejected")) }

NoResult == [st |-> "none"]

-----------------------------------------------------------------------------
(* The validate() call *)

Init ==
    /\ pc = "start"
    /\ agent_output \in AgentOutputs
    /\ schema \in Schemas
    /\ schema_args = DefaultArgs(Nested(schema))
    /\ restored = NoResult
    /\ restored_json = NoResult
    /\ again = NoResult
    /\ correlation_id \in CorrelationIds
    /\ has_retry_fn \in BOOLEAN
    /\ retries \in 0..MaxRetries
    /\ mode \in ValidationMode
    /\ config \in Configs
    /\ attempt = 0
    /\ last_error = NoResult
    /\ outcome = NoResult
    /\ gen_outputs = <<>>
    /\ logs = <<>>
    /\ reporter_failed = FALSE
    /\ events = <<>>

\* log_validation_result(record) followed by the end of the call with `ending`
\* (the value returned or the ValidationError raised), unless the reporter
\* raises
Report(record, ending) ==
    \E delivery_failed \in BOOLEAN :
        /\ logs' = Append(logs, record)
        /\ reporter_failed' = (reporter_failed \/ delivery_failed)
        /\ outcome' = IF ReporterRaises(delivery_failed)
                      THEN Raised("CloudLogError") ELSE ending

Inputs == <<agent_output, schema, has_retry_fn, retries, mode, config,
            correlation_id, schema_args, restored, restored_json, again>>

\* the initial attempt fails normalization or the payload check: raise, no
\* record
RejectOutput ==
    /\ pc = "start"
    /\ LET a == Attempt(agent_output, schema, mode, config)
       IN /\ a.stage # "validate"
          /\ outcome' = WithCorrelation(a.res, correlation_id)
    /\ pc' = "done"
    /\ UNCHANGED <<Inputs, attempt, last_error, gen_outputs, logs,
                   reporter_failed, events>>

\* variant: the validated value is written into the caller's object
FirstAttemptSucceeds_WritesInput ==
    /\ pc = "start"
    /\ LET a == Attempt(agent_output, schema, mode, config)
       IN /\ a.stage = "validate" /\ a.res.st = "ok"
          /\ Report(SuccessRecord(1, mode), a.res)
          /\ agent_output' = a.res.val
    /\ pc' = "done"
    /\ events' = Append(events, "validate")
    /\ UNCHANGED <<schema, has_retry_fn, retries, mode, config, correlation_id,
                   schema_args, restored, restored_json, again, attempt,
                   last_error, gen_outputs>>

\* the initial attempt validates: report and return
FirstAttemptSucceeds ==
    /\ pc = "start"
    /\ LET a == Attempt(agent_output, schema, mode, config)
       IN /\ a.stage = "validate" /\ a.res.st = "ok"
          /\ Report(SuccessRecord(1, mode), a.res)
    /\ pc' = "done"
    /\ events' = Append(events, "validate")
    /\ UNCHANGED <<Inputs, attempt, last_error, gen_outputs>>

\* the initial attempt raises ValidationError and there is no retry_fn: report
\* and re-raise
FirstAttemptFails ==
    /\ pc = "start"
    /\ ~has_retry_fn
    /\ LET a == Attempt(agent_output, schema, mode, config)
       IN /\ a.stage = "validate" /\ a.res.st = "ValidationError"
          /\ Report(FailureRecord(a.res, 1, mode), a.res)
    /\ pc' = "done"
    /\ events' = Append(events, "validate")
    /\ UNCHANGED <<Inputs, attempt, last_error, gen_outputs>>

\* the initial attempt raises ValidationError and there is a retry_fn: remember
\* the error and enter the loop
EnterRetryLoop ==
    /\ pc = "start"
    /\ has_retry_fn
    /\ LET a == Attempt(agent_output, schema, mode, config)
       IN /\ a.stage = "validate" /\ a.res.st = "ValidationError"
          /\ last_error' = a.res
    /\ attempt' = 1
    /\ pc' = "retry"
    /\ events' = Append(events, "validate")
    /\ UNCHANGED <<Inputs, outcome, gen_outputs, logs, reporter_failed>>

\* structural validation of the initial output raises another exception: it
\* leaves validate()
FirstAttemptCrashes ==
    /\ pc = "start"
    /\ LET a == Attempt(agent_output, schema, mode, config)
       IN /\ a.stage = "validate" /\ a.res.st = "raised"
          /\ outcome' = a.res
    /\ pc' = "done"
    /\ events' = Append(events, "validate")
    /\ UNCHANGED <<Inputs, attempt, last_error, gen_outputs, logs,
                   reporter_failed>>

ReturnedOutcomes == {o \in GenOutcomes : o.kind = "return"}
RaisedOutcomes == {o \in GenOutcomes : o.kind = "raise"}

\* variant: an iteration whose output validates reports and goes on looping
RetrySucceeds_NoReturn ==
    /\ pc = "retry"
    /\ attempt \in RetryRange(retries)
    /\ \E g \in ReturnedOutcomes :
         LET a == Attempt(g.val, schema, mode, config)
         IN /\ a.stage = "validate" /\ a.res.st = "ok"
            /\ gen_outputs' = Append(gen_outputs, g)
            /\ Report(SuccessRecord(RetrySuccessAttempts(attempt), mode), a.res)
    /\ attempt' = attempt + 1
    /\ events' = events \o <<"generate", "validate">>
    /\ UNCHANGED <<Inputs, pc, last_error>>

\* an iteration whose output validates: report and return
RetrySucceeds ==
    /\ pc = "retry"
    /\ attempt \in RetryRange(retries)
    /\ \E g \in ReturnedOutcomes :
         LET a == Attempt(g.val, schema, mode, config)
         IN /\ a.stage = "validate" /\ a.res.st = "ok"
            /\ gen_outputs' = Append(gen_outputs, g)
            /\ Report(SuccessRecord(RetrySuccessAttempts(attempt), mode), a.res)
    /\ pc' = "done"
    /\ events' = events \o <<"generate", "validate">>
    /\ UNCHANGED <<Inputs, attempt, last_error>>

\* an iteration whose output fails normalization or the payload check
\* (continue) or raises ValidationError in structural validation (remembered,
\* continue)
RetryFails ==
    /\ pc = "retry"
    /\ attempt \in RetryRange(retries)
    /\ \E g \in ReturnedOutcomes :
         LET a == Attempt(g.val, schema, mode, config)
         IN /\ a.stage = "validate" => a.res.st = "ValidationError"
            /\ gen_outputs' = Append(gen_outputs, g)
            /\ last_error' =
                  NextLastError(last_error,
                                IF a.stage = "validate" THEN a.res ELSE NoResult)
            /\ events' = events \o
                  (IF a.stage = "validate" THEN <<"generate", "validate">>
                   ELSE <<"generate">>)
    /\ attempt' = attempt + 1
    /\ UNCHANGED <<Inputs, pc, outcome, logs, reporter_failed>>

\* an iteration in which structural validation raises another exception: it
\* leaves validate()
RetryCrashes ==
    /\ pc = "retry"
    /\ attempt \in RetryRange(retries)
    /\ \E g \in ReturnedOutcomes :
         LET a == Attempt(g.val, schema, mode, config)
         IN /\ a.stage = "validate" /\ a.res.st = "raised"
            /\ gen_outputs' = Append(gen_outputs, g)
            /\ outcome' = a.res
    /\ pc' = "done"
    /\ events' = events \o <<"generate", "validate">>
    /\ UNCHANGED <<Inputs, attempt, last_error, logs, reporter_failed>>

\* an iteration in which retry_fn raises: a ValidationError is remembered and
\* the loop continues, another exception leaves validate()
RetryFnRaises ==
    /\ pc = "retry"
    /\ attempt \in RetryRange(retries)
    /\ \E g \in RaisedOutcomes :
         /\ gen_outputs' = Append(gen_outputs, g)
         /\ IF g.exc.st = "ValidationError"
            THEN /\ last_error' = NextLastError(last_error, g.exc)
                 /\ attempt' = attempt + 1
                 /\ UNCHANGED <<pc, outcome>>
            ELSE /\ outcome' = g.exc
                 /\ pc' = "done"
                 /\ UNCHANGED <<attempt, last_error>>
    /\ events' = Append(events, "generate")
    /\ UNCHANGED <<Inputs, logs, reporter_failed>>

\* after the loop: report the remembered error and raise it
Exhausted ==
    /\ pc = "retry"
    /\ attempt \notin RetryRange(retries)
    /\ Report(FailureRecord(last_error, ExhaustedAttempts(retries), mode),
              last_error)
    /\ pc' = "done"
    /\ UNCHANGED <<Inputs, attempt, last_error, gen_outputs, events>>

Next ==
    \/ RejectOutput
    \/ FirstAttemptSucceeds
    \/ FirstAttemptFails
    \/ EnterRetryLoop
    \/ FirstAttemptCrashes
    \/ RetrySucceeds
    \/ RetryFails
    \/ RetryCrashes
    \/ RetryFnRaises
    \/ Exhausted

Spec == Init /\ [][Next]_vars

\* the call as Python runs it: validate() is sequential code, so a call that
\* can take a step takes one; every retry_fn invocation comes back (with an
\* output or an exception)
SpecLive == Init /\ [][Next]_vars /\ WF_vars(Next)

-----------------------------------------------------------------------------
(* Library use without a generator: construct a Schema, then either rebuild *)
(* it from its serialized form or validate one output against it            *)

\* the values a field is given, by nesting level
Leaves(lv) ==
    IF lv = 0 THEN {PyStr("a"), PyStr("5"), PyInt(5), PyNone}
    ELSE {PyStr("a"), PyInt(5)}

\* the lists of at most MaxItems members of S
ListsOf(S) == UNION {[1..n -> S] : n \in 0..MaxItems}

\* outputs shaped after a description: per declared field, absent or one of
\* the field's candidates; with and without an undeclared key
RECURSIVE Candidates(_, _)
RECURSIVE DictsOf(_, _, _)
DictsOf(fields, n, lv) ==
    IF n > Len(fields) THEN {<<>>, << <<"extra", PyInt(1)>> >>}
    ELSE LET rest == DictsOf(fields, n + 1, lv)
         IN rest \cup { << <<fields[n][1], v>> >> \o r :
                            v \in Candidates(fields[n][2], lv), r \in rest }
Candidates(node, lv) ==
    CASE node.k = "dict" ->
           {PyDict(d) : d \in DictsOf(node.fields, 1, lv + 1)}
               \cup {PyStr("5"), PyNone}
      [] node.k = "list" /\ Len(node.elems) = 1 ->
           {PyList(l) : l \in ListsOf(Candidates(node.elems[1], lv + 1))}
               \cup {PyStr(TextList12)}
      [] OTHER -> Leaves(lv)

\* the same dict with its keys in the opposite order
Reversed(v) == PyDict([n \in 1..Len(v.d) |-> v.d[Len(v.d) + 1 - n]])

DataFor(fields) ==
    LET ds == {PyDict(d) : d \in DictsOf(fields, 1, 0)}
    IN ds \cup {Reversed(v) : v \in ds}

\* one declared field
ShapeKind(node) == << <<"x", node>> >>
KindNodes == {Type(ty) : ty \in SupportedTypes} \cup {Optional}
KindValues ==
    {PyStr(s) : s \in {"a", "True", "False", "-7", "0", "1", "5", "30", "2.5",
                       "-2.5", "0.0", "30.0", " 5 ", "yes", "{}"}}
    \cup {PyInt(i) : i \in {-7, 0, 1, 5, 30}}
    \cup {PyFloat(m) : m \in {-25, 0, 25, 300}}
    \cup {PyBool(b) : b \in BOOLEAN}
    \cup {PyNone, PyList(<<PyInt(1)>>), PyDict(<< <<"k", PyInt(1)>> >>),
          PyStr(TextList12)}

ShapeABC ==
    << <<"a", Type("int")>>, <<"b", Type("str")>>, <<"c", Type("bool")>> >>
ShapeUser ==
    << <<"user", Nested(<< <<"name", Type("str")>>, <<"age", Optional>> >>)>>,
       <<"n", Type("int")>> >>
ShapeItems == << <<"items", ListOf(Nested(<< <<"id", Type("int")>> >>))>> >>
ShapeTags == << <<"tags", ListOf(Type("str"))>>, <<"note", Optional>> >>
StructShapes ==
    {ShapeABC, ShapeUser, ShapeItems, ShapeTags, SchemaNameOptAge}

\* a description whose third level holds a node of another shape
ShapeDeepMalformed ==
    Nested(<< <<"x", Nested(<< <<"y", Nested(<< <<"z", OtherValue>> >>)>> >>)>>,
              <<"w", Type("int")>> >>)

\* descriptions that are not well formed
MalformedShapes ==
    { Type("str"),
      ListDesc(<<>>),
      OtherValue,
      Nested(<< <<IntKey, Type("str")>> >>),
      Nested(<< <<"x", Type("bytes")>> >>),
      Nested(<< <<"x", OtherValue>> >>),
      Nested(<< <<"x", ListDesc(<<>>)>> >>),
      Nested(<< <<"x", ListDesc(<<Type("str"), Type("int")>>)>> >>),
      Nested(<< <<"x", ListOf(Optional)>> >>),
      Nested(<< <<"x", ListOf(ListOf(Type("int")))>> >>),
      Nested(<< <<"x", ListOf(Type("bytes"))>> >>),
      Nested(<< <<"x", ListOf(OtherValue)>> >>),
      Nested(<< <<"x", Nested(<< <<IntKey, Type("str")>> >>)>> >>),
      Nested(<< <<"x", Nested(<< <<"y", Type("bytes")>> >>)>> >>),
      Nested(<< <<"x", ListOf(Nested(<< <<"y", ListDesc(<<>>)>> >>))>> >>),
      ShapeDeepMalformed }
MalformedData ==
    { PyDict(<<>>),
      PyDict(<< <<"x", PyInt(5)>> >>),
      PyDict(<< <<"x", PyDict(<< <<"y", PyInt(5)>> >>)>> >>),
      PyDict(<< <<"x", PyList(<<PyDict(<< <<"y", PyInt(5)>> >>)>>)>> >>),
      PyDict(<< <<"x", PyDict(<< <<"y", PyDict(<< <<"z", PyInt(5)>> >>)>> >>)>> >>) }

\* Schema(schema_dict, max_keys=4, max_list_len=3, max_str_len=9,
\*        validators={"name": ...})
CustomArgs(schema_dict) ==
    [schema_dict |-> schema_dict, max_keys |-> PyInt(4),
     max_list_len |-> PyInt(3), max_str_len |-> PyInt(9),
     validators |-> <<"name">>]

\* a Config whose list limit the generated lists can exceed
ListConfig == [DefaultConfig EXCEPT !.max_list_len = 1]

\* texts given for a list field: they parse to a list, an object, a scalar, a
\* string, or not at all
ListTexts ==
    {TextList12, "[]", TextJohn30, "{}", "5", TextQuoted5, TextQuotedName,
     "null", "true", "2.5", "a"}

Case(args, data, config_) == [args |-> args, data |-> data, config |-> config_]

LibCases ==
    {Case(DefaultArgs(Nested(ShapeKind(node))), PyDict(<< <<"x", v>> >>), c) :
        node \in KindNodes, v \in KindValues, c \in Configs}
    \cup UNION {{Case(DefaultArgs(Nested(fields)), v, c) :
                    v \in DataFor(fields), c \in Configs} :
                fields \in StructShapes}
    \cup {Case(DefaultArgs(shape), v, DefaultConfig) :
             shape \in MalformedShapes, v \in MalformedData}
    \cup {Case(CustomArgs(Nested(fields)), PyDict(<<>>), DefaultConfig) :
             fields \in StructShapes}
    \cup {Case(DefaultArgs(Nested(fields)), PyNone, c) :
             fields \in StructShapes, c \in Configs}
    \cup UNION {{Case(DefaultArgs(Nested(fields)), v, ListConfig) :
                    v \in DataFor(fields)} :
                fields \in {ShapeItems, ShapeTags}}
    \cup {Case(DefaultArgs(Nested(ShapeTags)),
               PyDict(<< <<"tags", PyStr(t)>> >>), DefaultConfig) :
             t \in ListTexts}
    \cup {Case(DefaultArgs(Nested(SchemaNameAge)), v, c) :
             v \in {PyStr(TextJohn30), PyStr("invalid json"), PyStr(TextQuoted5)},
             c \in Configs}

InitLib ==
    /\ pc = "new"
    /\ \E c \in LibCases :
         /\ schema_args = c.args
         /\ agent_output = c.data
         /\ config = c.config
    /\ schema = <<>>
    /\ mode \in ValidationMode
    /\ has_retry_fn = FALSE
    /\ retries = MaxRetries
    /\ correlation_id = "req-1"
    /\ restored = NoResult
    /\ restored_json = NoResult
    /\ again = NoResult
    /\ attempt = 0
    /\ last_error = NoResult
    /\ outcome = NoResult
    /\ gen_outputs = <<>>
    /\ logs = <<>>
    /\ reporter_failed = FALSE
    /\ events = <<>>

\* the Schema instance of the call
Instance ==
    SchemaInit(schema_args.schema_dict, schema_args.max_keys,
               schema_args.max_list_len, schema_args.max_str_len,
               schema_args.validators)

\* Schema(...): the instance, or SchemaError
Construct ==
    /\ pc = "new"
    /\ IF Instance.st = "ok"
       THEN /\ pc' = "start"
            /\ schema' = Instance.val.schema_dict.fields
            /\ outcome' = outcome
       ELSE /\ pc' = "done"
            /\ schema' = schema
            /\ outcome' = Instance
    /\ UNCHANGED <<schema_args, restored, restored_json, again,
                   correlation_id, agent_output, has_retry_fn, retries, mode,
                   config, attempt, last_error, gen_outputs, logs,
                   reporter_failed, events>>

\* variant: to_dict keeps the top-level keys only
ToDict_KeysOnly(s) ==
    [schema |-> Nested([n \in 1..Len(s.schema_dict.fields) |->
                           <<s.schema_dict.fields[n][1], Optional>>]),
     max_keys |-> s.max_keys, max_list_len |-> s.max_list_len,
     max_str_len |-> s.max_str_len, validators |-> PyNone]

\* Schema.to_dict
ToDict(s) ==
    [schema |-> s.schema_dict, max_keys |-> s.max_keys,
     max_list_len |-> s.max_list_len, max_str_len |-> s.max_str_len,
     validators |-> IF s.validators # <<>>
                    THEN PyList([n \in 1..Len(s.validators) |->
                                    PyStr(s.validators[n])])
                    ELSE PyNone]

\* Schema.from_dict
FromDict(data) ==
    SchemaInit(data.schema, data.max_keys, data.max_list_len,
               data.max_str_len, <<>>)

\* Schema.from_dict(s.to_dict())
RoundTripDict ==
    /\ pc = "start"
    /\ restored' = FromDict(ToDict(Instance.val))
    /\ pc' = "done"
    /\ UNCHANGED <<schema_args, restored_json, again, correlation_id,
                   agent_output, schema, has_retry_fn, retries, mode, config,
                   attempt, last_error, outcome, gen_outputs, logs,
                   reporter_failed, events>>

\* json.dumps of a shape description: the document its text denotes, or
\* TypeError for an object json cannot serialize (a type object)
RECURSIVE JsonOfShape(_)
JsonOfShape(node) ==
    LET RECURSIVE Members(_, _)
        Members(l, n) ==
            IF n > Len(l) THEN Ok(<<>>)
            ELSE LET v == JsonOfShape(IF node.k = "dict" THEN l[n][2] ELSE l[n])
                     rest == Members(l, n + 1)
                 IN IF v.st # "ok" THEN v
                    ELSE IF rest.st # "ok" THEN rest
                    ELSE Ok(<< IF node.k = "dict" THEN <<l[n][1], v.val>>
                               ELSE v.val >> \o rest.val)
    IN CASE node.k = "optional" -> Ok(PyNone)
         [] node.k = "type" -> Raised("TypeError")
         [] node.k = "dict" ->
              LET m == Members(node.fields, 1)
              IN IF m.st # "ok" THEN m ELSE Ok(PyDict(m.val))
         [] node.k = "list" ->
              LET m == Members(node.elems, 1)
              IN IF m.st # "ok" THEN m ELSE Ok(PyList(m.val))
         [] OTHER -> Ok(PyStr("str"))

\* json.loads of such a text, read as a shape description
RECURSIVE ShapeOfJson(_)
ShapeOfJson(v) ==
    CASE v.t = "NoneType" -> Optional
      [] v.t = "dict" ->
           Nested([n \in 1..Len(v.d) |-> <<v.d[n][1], ShapeOfJson(v.d[n][2])>>])
      [] v.t = "list" ->
           ListDesc([n \in 1..Len(v.l) |-> ShapeOfJson(v.l[n])])
      [] OTHER -> OtherValue

\* Schema.to_json: the document, or TypeError
ToJson(s) ==
    LET d == ToDict(s)
        j == JsonOfShape(d.schema)
    IN IF j.st # "ok" THEN j
       ELSE Ok([schema |-> j.val, max_keys |-> d.max_keys,
                max_list_len |-> d.max_list_len,
                max_str_len |-> d.max_str_len, validators |-> d.validators])

\* Schema.from_json
FromJson(json_str) ==
    FromDict([schema |-> ShapeOfJson(json_str.schema),
              max_keys |-> json_str.max_keys,
              max_list_len |-> json_str.max_list_len,
              max_str_len |-> json_str.max_str_len,
              validators |-> json_str.validators])

\* Schema.from_json(s.to_json())
RoundTripJson ==
    /\ pc = "start"
    /\ restored_json' = LET json_str == ToJson(Instance.val)
                        IN IF json_str.st # "ok" THEN json_str
                           ELSE FromJson(json_str.val)
    /\ pc' = "done"
    /\ UNCHANGED <<schema_args, restored, again, correlation_id,
                   agent_output, schema, has_retry_fn, retries, mode, config,
                   attempt, last_error, outcome, gen_outputs, logs,
                   reporter_failed, events>>

\* validate(r, schema, mode=mode, config=config) for the value r the call
\* returned
Revalidate ==
    /\ pc = "done"
    /\ outcome.st = "ok"
    /\ again = NoResult
    /\ again' = Attempt(outcome.val, schema, mode, config).res
    /\ UNCHANGED <<pc, schema_args, restored, restored_json, correlation_id,
                   agent_output, schema, has_retry_fn, retries, mode, config,
                   attempt, last_error, outcome, gen_outputs, logs,
                   reporter_failed, events>>

NextLib ==
    \/ Construct
    \/ RoundTripDict
    \/ RoundTripJson
    \/ RejectOutput
    \/ FirstAttemptSucceeds
    \/ FirstAttemptFails
    \/ FirstAttemptCrashes
    \/ Revalidate

SpecLib == InitLib /\ [][NextLib]_vars

-----------------------------------------------------------------------------
(* Vocabulary of the properties *)

Done == pc = "done"
GenCalls == Len(gen_outputs)

\* the initial attempt, and whether it raised ValidationError in structural
\* validation (the case in which the call reports a failure or retries)
Initial == Attempt(agent_output, schema, mode, config)
InitialFailedValidation ==
    Initial.stage = "validate" /\ Initial.res.st = "ValidationError"

\* how the attempt made with generator outcome g ends
AttemptResult(g) ==
    IF g.kind = "raise" THEN g.exc
    ELSE Attempt(g.val, schema, mode, config).res

\* the generator returned an output and it passed validation
Validates(g) ==
    /\ g.kind = "return"
    /\ Attempt(g.val, schema, mode, config).stage = "validate"
    /\ Attempt(g.val, schema, mode, config).res.st = "ok"

\* the ValidationError the attempt made with g raised inside the loop's try
\* block, if any: normalization and payload failures raise none
RaisedInLoop(g) ==
    IF g.kind = "raise"
    THEN (IF g.exc.st = "ValidationError" THEN g.exc ELSE NoResult)
    ELSE LET a == Attempt(g.val, schema, mode, config)
         IN IF a.stage = "validate" /\ a.res.st = "ValidationError"
            THEN a.res ELSE NoResult

\* the call left the retry loop with every attempt spent
LoopExhausted == Done /\ attempt = retries + 1

ErrorEntry(e) == [path |-> e.path, reason |-> e.reason]

-----------------------------------------------------------------------------
(* Properties *)

\* C1: whenever a field declared str holds a string longer than
\* config.max_str_len, the call fails with reason size_limit, in both modes.
C1_OversizedStringRejected ==
    Done =>
      \A f \in 1..Len(schema) :
        LET n == Normalize(agent_output, mode)
            key == schema[f][1]
        IN ( /\ schema[f][2] = Type("str")
             /\ n.st = "ok"
             /\ n.val.t = "dict"
             /\ HasKey(n.val, key)
             /\ Get(n.val, key).t = "str"
             /\ Len(Get(n.val, key).s) > config.max_str_len )
           => (outcome.st = "ValidationError" /\ outcome.reason = "size_limit")

\* C2: when the initial output fails structural validation and every output
\* the generator returns is structurally invalid, the call has invoked the
\* generator exactly `retries` times when it ends.
C2_ExhaustionInvokesGeneratorExactlyN ==
    ( /\ Done
      /\ has_retry_fn
      /\ InitialFailedValidation
      /\ \A j \in 1..GenCalls :
            gen_outputs[j].kind = "return" /\ ~Validates(gen_outputs[j]) )
    => GenCalls = retries

\* C3 as stated: after exhaustion the error raised and reported is the error of
\* the last failed attempt (the initial one only when there were no retries).
C3_ErrorOfLastAttempt ==
    LoopExhausted =>
      LET last == IF retries = 0 THEN Initial.res
                  ELSE AttemptResult(gen_outputs[retries])
      IN /\ outcome = last
         /\ logs[Len(logs)].errors = <<ErrorEntry(last)>>

\* C3 as amended: after exhaustion the error raised and reported is the most
\* recent ValidationError raised by structural validation (or by the generator)
\* during the call; a retry that fails normalization or the payload check
\* raises none and leaves the remembered error unchanged.
C3_ErrorOfLastRaisedValidationError ==
    LoopExhausted =>
      LET raising == {j \in 1..GenCalls :
                         RaisedInLoop(gen_outputs[j]).st = "ValidationError"}
          last == IF raising = {} THEN Initial.res
                  ELSE RaisedInLoop(gen_outputs[
                           CHOOSE j \in raising : \A i \in raising : i <= j])
      IN /\ outcome = last
         /\ Len(logs) = 1
         /\ ~logs[1].valid
         /\ logs[1].errors = <<ErrorEntry(last)>>

\* C3 witness: the last retry failed normalization or the payload check, an
\* earlier retry raised an error other than the initial one, and that error is
\* the one raised.
C3_Witness ==
    /\ LoopExhausted
    /\ retries = 2
    /\ RaisedInLoop(gen_outputs[2]).st = "none"
    /\ RaisedInLoop(gen_outputs[1]).st = "ValidationError"
    /\ RaisedInLoop(gen_outputs[1]) # Initial.res
    /\ outcome = RaisedInLoop(gen_outputs[1])

\* C4: a generator output that validates is the last one ever requested: the
\* call is over, it returned that output's validated value, and the number of
\* invocations is the output's position k <= retries.
C4_RetrySuccessShortCircuits ==
    \A k \in 1..GenCalls :
        Validates(gen_outputs[k]) =>
          /\ k = GenCalls
          /\ k <= retries
          /\ Done
          /\ outcome = Attempt(gen_outputs[k].val, schema, mode, config).res
          /\ \A j \in 1..(k - 1) : ~Validates(gen_outputs[j])

\* C4 witness: the second generator output validated after the initial attempt
\* and the first retry failed.
C4_Witness ==
    /\ Done
    /\ InitialFailedValidation
    /\ GenCalls = 2
    /\ ~Validates(gen_outputs[1])
    /\ Validates(gen_outputs[2])
    /\ outcome.st = "ok"

\* C5: the attempt count of every record handed to the reporter is 1 plus the
\* number of generator invocations of the call.
C5_AttemptsCountInvocations ==
    \A n \in 1..Len(logs) : logs[n].attempts = 1 + GenCalls

\* C5 witness: exhaustion after two retries, reported with attempts = 3.
C5_Witness ==
    /\ LoopExhausted
    /\ retries = 2
    /\ GenCalls = 2
    /\ Len(logs) = 1
    /\ logs[1].attempts = 3

\* C6: without a generator the retry loop is never entered, and a call whose
\* initial structural validation fails hands over exactly one record
\* (valid = false, attempts = 1, the error) and fails with that error.
C6_NoGeneratorNoRetry ==
    ~has_retry_fn =>
      /\ pc # "retry"
      /\ gen_outputs = <<>>
      /\ (Done /\ InitialFailedValidation) =>
            /\ outcome = Initial.res
            /\ logs = << [valid |-> FALSE,
                          errors |-> <<ErrorEntry(Initial.res)>>,
                          attempts |-> 1,
                          mode |-> mode] >>

\* C6 witness: a failed initial validation with retries = 2 and no generator.
C6_Witness ==
    /\ Done
    /\ ~has_retry_fn
    /\ retries = 2
    /\ InitialFailedValidation
    /\ outcome.st = "ValidationError"

\* C7: every call that has returned a value or failed with a ValidationError
\* handed exactly one record to the reporter.
C7_ExactlyOneRecord ==
    (Done /\ outcome.st \in {"ok", "ValidationError"}) => Len(logs) = 1

\* C8: once the generator has been invoked, whatever it did (raise, or return
\* malformed data), the call ends with a value or a ValidationError.
C8_GeneratorFailureNeverFatal ==
    (Done /\ GenCalls > 0) => outcome.st \in {"ok", "ValidationError"}

\* C9: a reporter call that fails to deliver leaves the outcome as it is: a
\* validated output is still returned, a failed call still fails with its
\* ValidationError.
C9_ReporterFailureKeepsOutcome ==
    (Done /\ reporter_failed) =>
      LET record == logs[Len(logs)]
          validated == IF GenCalls = 0 THEN Initial.res
                       ELSE AttemptResult(gen_outputs[GenCalls])
      IN IF record.valid
         THEN validated.st = "ok" /\ outcome = validated
         ELSE /\ outcome.st = "ValidationError"
              /\ record.errors = <<ErrorEntry(outcome)>>

\* C9 witness: the reporter failed to deliver and the call returned the value.
C9_Witness ==
    /\ Done
    /\ reporter_failed
    /\ outcome.st = "ok"

\* C10: every generator invocation is immediately preceded by a backoff wait.
C10_WaitBeforeEveryGeneratorCall ==
    \A n \in 1..Len(events) :
        events[n] = "generate" => (n > 1 /\ events[n - 1] = "wait")

-----------------------------------------------------------------------------
(* Vocabulary of the properties of one validation *)

\* the call was a validate() of agent_output against the constructed Schema,
\* and it is over
Validated ==
    /\ pc = "done"
    /\ restored = NoResult
    /\ restored_json = NoResult
    /\ Instance.st = "ok"

\* the output after normalization
Payload == Normalize(agent_output, mode)

\* every declared field that is present holds a value of its declared type,
\* every required field is present, at every nesting level
RECURSIVE ConformsTo(_, _)
ConformsTo(value, node) ==
    CASE node.k = "optional" -> TRUE
      [] node.k = "type" -> value.t = node.ty
      [] node.k = "dict" ->
           /\ value.t = "dict"
           /\ \A n \in 1..Len(node.fields) :
                IF HasKey(value, node.fields[n][1])
                THEN ConformsTo(Get(value, node.fields[n][1]), node.fields[n][2])
                ELSE node.fields[n][2].k = "optional"
      [] node.k = "list" ->
           /\ value.t = "list"
           /\ \A n \in 1..Len(value.l) : ConformsTo(value.l[n], node.elems[1])

\* every string, list and dict inside the value is within its limit
RECURSIVE WithinLimits(_, _)
WithinLimits(value, config_) ==
    CASE value.t = "str" -> Len(value.s) <= config_.max_str_len
      [] value.t = "list" ->
           /\ Len(value.l) <= config_.max_list_len
           /\ \A n \in 1..Len(value.l) : WithinLimits(value.l[n], config_)
      [] value.t = "dict" ->
           /\ Len(value.d) <= config_.max_dict_keys
           /\ \A n \in 1..Len(value.d) : WithinLimits(value.d[n][2], config_)
      [] OTHER -> TRUE

\* the value restricted to the keys the description declares, at every level
RECURSIVE Restrict(_, _)
Restrict(value, node) ==
    LET RECURSIVE Fields(_)
        Fields(n) ==
            IF n > Len(node.fields) THEN <<>>
            ELSE IF HasKey(value, node.fields[n][1])
            THEN << <<node.fields[n][1],
                      Restrict(Get(value, node.fields[n][1]),
                               node.fields[n][2])>> >> \o Fields(n + 1)
            ELSE Fields(n + 1)
    IN CASE node.k = "dict" /\ value.t = "dict" -> PyDict(Fields(1))
         [] node.k = "list" /\ value.t = "list" ->
              PyList([n \in 1..Len(value.l) |->
                         Restrict(value.l[n], node.elems[1])])
         [] OTHER -> value

\* two values are equal as Python compares them: dicts whatever the key order
RECURSIVE PyEqual(_, _)
PyEqual(v, w) ==
    CASE v.t = "dict" /\ w.t = "dict" ->
           /\ Len(v.d) = Len(w.d)
           /\ \A n \in 1..Len(v.d) :
                /\ HasKey(w, v.d[n][1])
                /\ PyEqual(v.d[n][2], Get(w, v.d[n][1]))
      [] v.t = "list" /\ w.t = "list" ->
           /\ Len(v.l) = Len(w.l)
           /\ \A n \in 1..Len(v.l) : PyEqual(v.l[n], w.l[n])
      [] OTHER -> v = w

-----------------------------------------------------------------------------
(* Properties of validation and of Schema, under SpecLib unless said        *)

\* C11: in STRICT mode an output within the size limits whose declared fields
\* already have their declared types (nested objects and lists of objects
\* included) validates, and the value returned equals the output restricted to
\* the declared keys at every nesting level.
C11_StrictPassthrough ==
    ( /\ Validated
      /\ mode = STRICT
      /\ Payload.st = "ok"
      /\ ConformsTo(Payload.val, Nested(schema))
      /\ WithinLimits(Payload.val, config)
      /\ ~TooLarge(Payload.val, config) )
    => /\ outcome.st = "ok"
       /\ PyEqual(outcome.val, Restrict(Payload.val, Nested(schema)))

\* C11 witness: a list of two objects, one with an undeclared key, came back
\* without that key.
C11_Witness ==
    /\ Validated
    /\ mode = STRICT
    /\ schema = ShapeItems
    /\ ConformsTo(agent_output, Nested(schema))
    /\ agent_output.t = "dict"
    /\ HasKey(agent_output, "items")
    /\ Get(agent_output, "items").t = "list"
    /\ Len(Get(agent_output, "items").l) = 2
    /\ outcome.st = "ok"
    /\ outcome.val # agent_output
    /\ outcome.val = Restrict(agent_output, Nested(schema))

\* the numbers and booleans whose text form is among the generated values
RoundTripValues == {v \in KindValues : v.t \in {"int", "bool", "float"}}

\* C12: in COERCE mode, for every integer, boolean or float x and a field
\* declared with x's type, validating {field: str(x)} succeeds and the field
\* of the result is x, with its type.
C12_CoercionRoundTrip ==
    \A v \in RoundTripValues :
        ( /\ Validated
          /\ mode = COERCE
          /\ schema = ShapeKind(Type(v.t))
          /\ agent_output = PyDict(<< <<"x", PyStr(StrOf(v))>> >>) )
        => outcome = Ok(PyDict(<< <<"x", v>> >>))

\* C12 witness: "False" for a bool field came back as the boolean False, and
\* the text was not already a value of the field's type.
C12_Witness ==
    /\ Validated
    /\ mode = COERCE
    /\ schema = ShapeKind(Type("bool"))
    /\ agent_output = PyDict(<< <<"x", PyStr(StrOf(PyBool(FALSE)))>> >>)
    /\ outcome = Ok(PyDict(<< <<"x", PyBool(FALSE)>> >>))

\* what validating declared field n alone, against the normalized output, gives
FieldOutcome(n) ==
    ValidateFields(Payload.val, <<schema[n]>>, 1, <<>>, mode, config, "root")

\* the declared fields that do not validate
InvalidFields ==
    {n \in 1..Len(schema) : FieldOutcome(n).st # "ok"}

\* the call got as far as the loop over the declared fields
ReachedFields ==
    /\ Validated
    /\ Payload.st = "ok"
    /\ Payload.val.t = "dict"
    /\ ~TooLarge(Payload.val, config)
    /\ ~SizeLimitExceeded(Payload.val, config)

\* C13: when several declared fields are invalid, the call fails with the
\* ValidationError of the invalid field that comes first in declared order
\* (its path, depth-first), and the same output with its keys in the opposite
\* order fails the same way.
C13_FirstInvalidFieldReported ==
    (ReachedFields /\ Cardinality(InvalidFields) >= 2) =>
        LET first == CHOOSE n \in InvalidFields : \A i \in InvalidFields : n <= i
        IN /\ outcome.st = "ValidationError"
           /\ outcome = FieldOutcome(first)
           /\ Attempt(Reversed(Payload.val), schema, mode, config).res = outcome

\* the declared optional fields that the normalized output holds
PresentOptionals ==
    {n \in 1..Len(schema) :
        schema[n][2] = Optional /\ HasKey(Payload.val, schema[n][1])}

Keys(v) == {v.d[n][1] : n \in 1..Len(v.d)}

\* at every object node of the description where the input holds a dict, the
\* result is a dict whose keys are the declared keys the input has, no key
\* twice, every required key among them
RECURSIVE KeysExact(_, _, _)
KeysExact(input, result, node) ==
    CASE node.k = "dict" /\ input.t = "dict" ->
           /\ result.t = "dict"
           /\ Len(result.d) = Cardinality(Keys(result))
           /\ Keys(result) = {node.fields[n][1] : n \in 1..Len(node.fields)}
                                \cap Keys(input)
           /\ \A n \in 1..Len(node.fields) :
                LET key == node.fields[n][1]
                IN /\ node.fields[n][2] # Optional => key \in Keys(result)
                   /\ key \in Keys(result) =>
                         KeysExact(Get(input, key), Get(result, key),
                                   node.fields[n][2])
      [] node.k = "list" /\ input.t = "list" ->
           /\ result.t = "list"
           /\ Len(result.l) = Len(input.l)
           /\ \A n \in 1..Len(input.l) :
                KeysExact(input.l[n], result.l[n], node.elems[1])
      [] OTHER -> TRUE

\* C15: on success the key set of every result object is exactly the declared
\* keys present in the corresponding input object: undeclared keys dropped,
\* absent optional keys omitted, every required key present.
C15_ResultKeysAreDeclaredAndPresent ==
    (Validated /\ outcome.st = "ok" /\ Payload.val.t = "dict") =>
        KeysExact(Payload.val, outcome.val, Nested(schema))

\* C15 witness: undeclared keys at both levels were dropped and the absent
\* optional key of the nested object was not added.
C15_Witness ==
    /\ Validated
    /\ schema = ShapeUser
    /\ agent_output =
         PyDict(<< <<"user", PyDict(<< <<"name", PyStr("a")>>,
                                       <<"extra", PyInt(1)>> >>)>>,
                   <<"n", PyInt(5)>>,
                   <<"extra", PyInt(1)>> >>)
    /\ outcome =
         Ok(PyDict(<< <<"user", PyDict(<< <<"name", PyStr("a")>> >>)>>,
                      <<"n", PyInt(5)>> >>))

-----------------------------------------------------------------------------
(* Properties of the validate() call, under Spec *)

\* the number of the attempt that raised the error the call failed with: 0
\* for the initial attempt, j for the j-th retry
ProducingAttempt ==
    LET raising == {j \in 1..GenCalls :
                       RaisedInLoop(gen_outputs[j]).st = "ValidationError"}
    IN IF raising = {} THEN 0
       ELSE CHOOSE j \in raising : \A i \in raising : i <= j

\* C16: every ValidationError the call fails with carries the number of the
\* attempt that produced it and the caller's correlation id.
C16_ErrorCarriesAttemptAndCorrelation ==
    (Done /\ outcome.st = "ValidationError") =>
        /\ outcome.attempt = ProducingAttempt
        /\ outcome.correlation_id = correlation_id

\* the initial output is a text that does not parse as JSON
InitialUnparsable ==
    agent_output.t = "str" /\ JsonLoads(agent_output.s).st # "ok"

-----------------------------------------------------------------------------
(* Properties of validation and of Schema, under SpecLib (continued) *)

Kinds == {"str", "int", "float", "bool"}

\* C18: in STRICT mode, for every two distinct kinds among str, int, float and
\* bool, a field declared with one kind and given a value of the other fails
\* with 'Expected X, got Y' at the field's path.
C18_StrictKindsMustMatch ==
    \A X \in Kinds : \A Y \in Kinds \ {X} :
        ( /\ Validated
          /\ mode = STRICT
          /\ schema = ShapeKind(Type(X))
          /\ Payload.st = "ok"
          /\ Payload.val.t = "dict"
          /\ HasKey(Payload.val, "x")
          /\ Get(Payload.val, "x").t = Y
          /\ ~TooLarge(Payload.val, config) )
        => outcome = ValidationError("root.x", "Expected " \o X \o ", got " \o Y)

\* a description that is malformed at some depth: a key that is not a str, a
\* type outside the supported ones, a list without exactly one entry, or a
\* node that is none of None, type, dict, list
RECURSIVE Malformed(_)
RECURSIVE MalformedNode(_)
MalformedNode(value) ==
    CASE value.k = "optional" -> FALSE
      [] value.k = "type" -> value.ty \notin SupportedTypes
      [] value.k = "dict" -> Malformed(value)
      [] value.k = "list" ->
           Len(value.elems) # 1 \/ MalformedNode(value.elems[1])
      [] OTHER -> TRUE
Malformed(node) ==
    \/ node.k # "dict"
    \/ \E n \in 1..Len(node.fields) :
          ~IsStrKey(node.fields[n][1]) \/ MalformedNode(node.fields[n][2])

\* C19: constructing a Schema from a description that is malformed at any
\* depth fails at once with a SchemaError, and a SchemaError is only ever
\* raised by the constructor: never once validation has begun.
C19_SchemaErrorOnlyAtConstruction ==
    /\ Malformed(schema_args.schema_dict) =>
          /\ pc \in {"new", "done"}
          /\ pc = "done" => outcome = Raised("SchemaError")
          /\ events = <<>>
          /\ restored = NoResult
    /\ outcome = Raised("SchemaError") => events = <<>>

\* C19 witness: a description whose third level holds a node of another shape
\* was refused by the constructor.
C19_Witness ==
    /\ pc = "done"
    /\ schema_args.schema_dict = ShapeDeepMalformed
    /\ outcome = Raised("SchemaError")
    /\ events = <<>>

\* C20: Schema.from_dict(s.to_dict()) constructs successfully and its shape
\* description equals that of s.
C20_DictRoundTrip ==
    restored # NoResult =>
        /\ restored.st = "ok"
        /\ restored.val.schema_dict = schema_args.schema_dict

\* C20 witness: a Schema with a nested object, limits and a validator was
\* rebuilt with the same description.
C20_Witness ==
    /\ schema_args = CustomArgs(Nested(ShapeUser))
    /\ restored.st = "ok"
    /\ restored.val.schema_dict = Nested(ShapeUser)
    /\ restored.val.max_keys = schema_args.max_keys

\* C21: for every well-formed schema s, typed leaf fields included,
\* Schema.from_json(s.to_json()) constructs a schema whose shape description
\* equals that of s.
C21_JsonRoundTrip ==
    restored_json # NoResult =>
        /\ restored_json.st = "ok"
        /\ restored_json.val.schema_dict = schema_args.schema_dict

\* the value holds a null where the description has an object: as the whole
\* value, as a field declared a nested object, or as an element of a list of
\* objects
RECURSIVE NullAtObjectNode(_, _)
NullAtObjectNode(value, node) ==
    CASE node.k = "dict" ->
           \/ value.t = "NoneType"
           \/ /\ value.t = "dict"
              /\ \E n \in 1..Len(node.fields) :
                    /\ HasKey(value, node.fields[n][1])
                    /\ NullAtObjectNode(Get(value, node.fields[n][1]),
                                        node.fields[n][2])
      [] node.k = "list" ->
           /\ value.t = "list"
           /\ node.elems[1].k = "dict"
           /\ \E n \in 1..Len(value.l) :
                 NullAtObjectNode(value.l[n], node.elems[1])
      [] OTHER -> FALSE

\* the value holds a null at a node that is not the optional marker
RECURSIVE NullAtNonOptional(_, _)
NullAtNonOptional(value, node) ==
    /\ node.k # "optional"
    /\ \/ value.t = "NoneType"
       \/ /\ node.k = "dict"
          /\ value.t = "dict"
          /\ \E n \in 1..Len(node.fields) :
                /\ HasKey(value, node.fields[n][1])
                /\ NullAtNonOptional(Get(value, node.fields[n][1]),
                                     node.fields[n][2])
       \/ /\ node.k = "list"
          /\ value.t = "list"
          /\ \E n \in 1..Len(value.l) :
                NullAtNonOptional(value.l[n], node.elems[1])

\* C22: a null given as the whole input, as the value of a field declared a
\* nested object or as an element of a list of objects makes the call fail,
\* in both modes, and no value returned holds a null at a node that is not
\* the optional marker.
C22_NullOnlyAtOptional ==
    /\ ( /\ Validated
         /\ Payload.st = "ok"
         /\ NullAtObjectNode(Payload.val, Nested(schema)) )
       => outcome.st = "ValidationError"
    /\ (Validated /\ outcome.st = "ok")
       => ~NullAtNonOptional(outcome.val, Nested(schema))

\* the declared list fields whose value, in the normalized output, is a list
\* longer than the configured maximum list length
OverlongLists ==
    {n \in 1..Len(schema) :
        /\ schema[n][2].k = "list"
        /\ HasKey(Payload.val, schema[n][1])
        /\ Get(Payload.val, schema[n][1]).t = "list"
        /\ Len(Get(Payload.val, schema[n][1]).l) > config.max_list_len}

\* C23: a list field whose value has more elements than the maximum list
\* length makes the call fail with size_limit at that field's path, in both
\* modes, whatever the elements are (the fields declared before it being
\* valid).
C23_ListFieldSizeLimit ==
    ReachedFields =>
        \A n \in OverlongLists :
            (\A i \in 1..(n - 1) : i \notin InvalidFields) =>
                outcome = ValidationError("root." \o schema[n][1], "size_limit")

\* the generator outcome just taken was an output that normalization (STRICT,
\* text that is no JSON) or the payload ceiling turned away
SkippedOutput(g) ==
    g.kind = "return" /\ Attempt(g.val, schema, mode, config).stage # "validate"

\* C24: inside the retry loop, a generator output that fails normalization or
\* exceeds the payload ceiling consumes exactly one attempt, leaves the
\* remembered error as it was and the loop goes on: the call does not end in
\* that step and reports nothing.
C24_SkippedOutputCostsOneAttempt ==
    [][ ( /\ pc = "retry"
          /\ Len(gen_outputs') = Len(gen_outputs) + 1
          /\ SkippedOutput(gen_outputs'[Len(gen_outputs')]) )
        => /\ attempt' = attempt + 1
           /\ last_error' = last_error
           /\ pc' = "retry"
           /\ outcome' = outcome
           /\ logs' = logs
           /\ events' = Append(events, "generate") ]_vars

\* an output turned away in the first iteration, one that validated in the
\* second
C24_Witness ==
    /\ Done
    /\ outcome.st = "ok"
    /\ GenCalls = 2
    /\ SkippedOutput(gen_outputs[1])
    /\ Validates(gen_outputs[2])

\* C25: mode refinement: when a call in STRICT mode succeeds with a value,
\* the same input, schema and limits in COERCE mode succeed with that value.
C25_StrictImpliesCoerce ==
    (Validated /\ mode = STRICT /\ outcome.st = "ok") =>
        Attempt(agent_output, schema, COERCE, config).res = outcome

\* a STRICT success on a structured value with a nested object
C25_Witness ==
    /\ Validated
    /\ mode = STRICT
    /\ schema = ShapeUser
    /\ outcome.st = "ok"
    /\ outcome.val.t = "dict"
    /\ Attempt(agent_output, schema, COERCE, config).res = outcome

\* C26: for every JSON-representable input the call returns a value or fails
\* with ValidationError: no other exception leaves it.
C26_OnlyValidationErrorEscapes ==
    Validated => outcome.st \in {"ok", "ValidationError"}

\* C27: idempotence: when a call succeeds with a value r, the call on r with
\* the same schema, mode and limits succeeds with a value equal to r.
C27_Idempotent ==
    again # NoResult =>
        /\ again.st = "ok"
        /\ PyEqual(again.val, outcome.val)

\* the structural validations the call has made
Validations == Cardinality({i \in 1..Len(events) : events[i] = "validate"})

\* C28: termination: every call ends (each generator invocation coming
\* back), having invoked the generator at most retries times and validated
\* structurally at most retries + 1 times.
C28_Terminates ==
    /\ <>Done
    /\ [](GenCalls <= retries /\ Validations <= retries + 1)

\* a call that ended after using every retry and every validation
C28_Witness ==
    /\ Done
    /\ retries = MaxRetries
    /\ GenCalls = retries
    /\ Validations = retries + 1

\* C29: a call leaves the Schema's shape description and the caller's input
\* as they were, whatever its outcome: no step of it writes to either.
C29_InputsUntouched ==
    [][ /\ agent_output' = agent_output
        /\ schema' = schema
        /\ schema_args' = schema_args ]_vars

\* a call ended with a converted value, its input still the text values
C29_Witness ==
    /\ Done
    /\ mode = COERCE
    /\ schema = SchemaNameAge
    /\ agent_output = PyDict(<< <<"name", PyStr("John")>>, <<"age", PyStr("30")>> >>)
    /\ outcome = Ok(PyDict(<< <<"name", PyStr("John")>>, <<"age", PyInt(30)>> >>))

\* the call is a COERCE validation of {tags: text} against a list-of-str field
ListFieldText ==
    /\ Validated
    /\ mode = COERCE
    /\ schema = ShapeTags
    /\ agent_output.t = "dict"
    /\ Len(agent_output.d) = 1
    /\ HasKey(agent_output, "tags")
    /\ Get(agent_output, "tags").t = "str"

\* C30: in COERCE mode a string given for a list field is accepted only when
\* its text parses to a JSON list, the result then having the list's elements
\* in the same order; text that parses to an object or a scalar, or does not
\* parse, is rejected with 'Cannot coerce to list' at the field's path.
C30_ListFromTextOnlyIfList ==
    ListFieldText =>
        LET parsed == JsonLoads(Get(agent_output, "tags").s)
        IN IF parsed.st = "ok" /\ parsed.val.t = "list"
           THEN outcome.st = "ok" =>
                   /\ Get(outcome.val, "tags").t = "list"
                   /\ Len(Get(outcome.val, "tags").l) = Len(parsed.val.l)
                   /\ \A n \in 1..Len(parsed.val.l) :
                         Get(outcome.val, "tags").l[n] =
                            ValidateType(parsed.val.l[n], "str", COERCE, "").val
           ELSE outcome = ValidationError("root.tags", "Cannot coerce to list")

=============================================================================
